---------------------------- MODULE Spec2Model ----------------------------
(* A model of the rust-av WAV demuxer / muxer (src/src/parser.rs,           *)
(* src/src/demuxer.rs, src/src/muxer.rs, src/src/lib.rs).                    *)
(*                                                                          *)
(* Byte streams are sequences of naturals in 0..255.  Parsers take the      *)
(* whole input and a 0-based offset o (the nom input slice is input[o..]),  *)
(* and return a record: ok, the new offset i, the value v, and on failure   *)
(* the nom error variant and kind.                                          *)
EXTENDS Integers, Sequences, FiniteSets, TLC

-----------------------------------------------------------------------------
(* Little-endian integers and the chunk tags                                *)

U16LE(n) == << n % 256, (n \div 256) % 256 >>

U32LE(n) == << n % 256, (n \div 256) % 256,
               (n \div 65536) % 256, (n \div 16777216) % 256 >>

TagRIFF == << 82, 73, 70, 70 >>
TagWAVE == << 87, 65, 86, 69 >>
TagFmt == << 102, 109, 116, 32 >>
TagFact == << 102, 97, 99, 116 >>
TagData == << 100, 97, 116, 97 >>
TagLIST == << 76, 73, 83, 84 >>

Slice(input, o, n) == [k \in 1..n |-> input[o + k]]

-----------------------------------------------------------------------------
(* parser.rs                                                                *)

WAVEFORMAT == 16
WAVEFORMATEX == 18

POk(i, v) == [ok |-> TRUE, i |-> i, v |-> v, variant |-> "", kind |-> ""]
PErr(i, kind) ==
    [ok |-> FALSE, i |-> i, v |-> 0, variant |-> "Error", kind |-> kind]

(* nom::number::complete::le_u16 / le_u32, nom::bytes::complete::take, tag *)
le_u16(input, o) ==
    IF o + 2 <= Len(input)
    THEN POk(o + 2, input[o + 1] + 256 * input[o + 2])
    ELSE PErr(o, "Eof")

le_u32(input, o) ==
    IF o + 4 <= Len(input)
    THEN POk(o + 4, input[o + 1] + 256 * input[o + 2]
                    + 65536 * input[o + 3] + 16777216 * input[o + 4])
    ELSE PErr(o, "Eof")

take(input, o, n) ==
    IF o + n <= Len(input)
    THEN POk(o + n, Slice(input, o, n))
    ELSE PErr(o, "Eof")

tag(input, o, t) ==
    IF o + Len(t) <= Len(input) /\ Slice(input, o, Len(t)) = t
    THEN POk(o + Len(t), t)
    ELSE PErr(o, "Tag")

header(input, o) ==
    LET m1 == tag(input, o, TagRIFF) IN
    IF ~m1.ok THEN m1 ELSE
    LET sz == le_u32(input, m1.i) IN
    IF ~sz.ok THEN sz ELSE
    LET m2 == tag(input, sz.i, TagWAVE) IN
    IF ~m2.ok THEN m2 ELSE
    POk(m2.i, [file_size |-> sz.v])

read_chunks_type(input, o) ==
    LET t == take(input, o, 4) IN
    IF ~t.ok THEN t ELSE
    LET s == le_u32(input, t.i) IN
    IF ~s.ok THEN s ELSE
    POk(s.i, [ctype |-> t.v, csize |-> s.v])

NoEdata == [some |-> FALSE, v |-> << >>]
SomeEdata(bytes) == [some |-> TRUE, v |-> bytes]

extradata(chunk_size, input, o) ==
    IF chunk_size < WAVEFORMATEX - 1 THEN PErr(o, "Custom100") ELSE
    LET size == le_u16(input, o) IN
    IF ~size.ok THEN size ELSE
    IF chunk_size >= WAVEFORMATEX
    THEN LET data == take(input, size.i, size.v) IN
         IF ~data.ok THEN data ELSE POk(data.i, SomeEdata(data.v))
    ELSE POk(size.i, NoEdata)

bits_per_sample(chunk_size, input, o) ==
    IF chunk_size >= WAVEFORMAT THEN le_u16(input, o) ELSE POk(o, 8)

parse_fmt(input, o) ==
    LET c == read_chunks_type(input, o) IN
    IF ~c.ok THEN c ELSE
    IF c.v.ctype # TagFmt THEN PErr(o, "Verify") ELSE
    LET chunk_size == c.v.csize
        t0 == le_u16(input, c.i) IN
    IF ~t0.ok THEN t0 ELSE
    LET t1 == le_u16(input, t0.i) IN
    IF ~t1.ok THEN t1 ELSE
    LET t2 == le_u32(input, t1.i) IN
    IF ~t2.ok THEN t2 ELSE
    LET t3 == le_u32(input, t2.i) IN
    IF ~t3.ok THEN t3 ELSE
    LET t4 == le_u16(input, t3.i) IN
    IF ~t4.ok THEN t4 ELSE
    LET t5 == bits_per_sample(chunk_size, input, t4.i) IN
    IF ~t5.ok THEN t5 ELSE
    LET t6 == extradata(chunk_size, input, t5.i) IN
    IF ~t6.ok THEN t6 ELSE
    POk(t6.i, [format_tag |-> t0.v,
               channels |-> t1.v,
               samples_per_sec |-> t2.v,
               avg_bytes_per_sec |-> t3.v,
               block_align |-> t4.v,
               bits_per_sample |-> t5.v,
               edata |-> t6.v])

parse_header_fmt(input, o) ==
    LET h == header(input, o) IN
    IF ~h.ok THEN h ELSE parse_fmt(input, h.i)

read_duration(input, o) == le_u32(input, o)

skip_chunk(input, o, chunk_size) == take(input, o, chunk_size)

(* get_data built on nom's streaming take: a short input is Incomplete.     *)
get_data_streaming(input, o, data_size) ==
    IF o + data_size <= Len(input)
    THEN POk(o + data_size, Slice(input, o, data_size))
    ELSE [ok |-> FALSE, i |-> o, v |-> 0,
          variant |-> "Incomplete", kind |-> "Size"]

get_data(input, o, data_size) == take(input, o, data_size)

-----------------------------------------------------------------------------
(* lib.rs                                                                   *)

PCM_FLOAT_FORMAT_ID == 3

WAV_CODEC_REGISTER ==
    << <<0, "unknown">>, <<1, "pcm">>, <<2, "ms-adpcm">>,
       <<PCM_FLOAT_FORMAT_ID, "pcm">>, <<17, "ima-adpcm-ms">>,
       <<97, "adpcm-dk4">>, <<98, "adpcm-dk3">>, <<1025, "imc">>,
       <<1026, "iac">>, <<1280, "on2avc-500">>, <<1281, "on2avc-501">> >>

(* Option<&str>: the name of the first entry whose twocc is tcc, or None.   *)
find_codec_from_wav_twocc(tcc) ==
    LET hits == {k \in 1..Len(WAV_CODEC_REGISTER) :
                    WAV_CODEC_REGISTER[k][1] = tcc} IN
    IF hits = {} THEN [some |-> FALSE, v |-> ""]
    ELSE LET first == CHOOSE k \in hits : \A j \in hits : k <= j IN
         [some |-> TRUE, v |-> WAV_CODEC_REGISTER[first][2]]

-----------------------------------------------------------------------------
(* demuxer.rs                                                               *)

DefaultFormat ==
    [format_tag |-> 0, channels |-> 0, samples_per_sec |-> 0,
     avg_bytes_per_sec |-> 0, block_align |-> 0, bits_per_sample |-> 0,
     edata |-> NoEdata]

(* WavDemuxer::new(): every field at its Default value.                     *)
WavDemuxerNew ==
    [format |-> DefaultFormat, data_pos |-> 0, data_end |-> 0,
     cname |-> "", is_pcm |-> FALSE, duration |-> 0]

unwrap_or(opt, dflt) == IF opt.some THEN opt.v ELSE dflt

(* Whether the crate is built with overflow checks (the dev and test        *)
(* profiles) or without them (the release profile): an overflowing u32      *)
(* multiplication panics in the former and wraps in the latter.             *)
VARIABLE overflow_checks

(* The u32 product a as u32 * b of a u16 and a u32, computed in 16-bit      *)
(* halves: whether it exceeds 32 bits, and the halves of the wrapped value. *)
u32_mul(a, b) ==
    LET bh == b \div 65536
        bl == b % 65536
        x == (a \div 256) * bl
        y == (a % 256) * bl
        mid == (x % 256) * 256 + y
        hi == a * bh + x \div 256 + mid \div 65536
    IN [overflow |-> hi >= 65536, hi |-> hi % 65536, lo |-> mid % 65536]

u32_value(m) == m.hi * 65536 + m.lo

(* analyze_fmt backfilling the byte rate of every codec, PCM or not.        *)
analyze_fmt_any_codec(d, format) ==
    LET cname == unwrap_or(find_codec_from_wav_twocc(format.format_tag),
                           "unknown")
        avg == IF format.avg_bytes_per_sec = 0
               THEN u32_value(u32_mul(format.block_align,
                                      format.samples_per_sec))
               ELSE format.avg_bytes_per_sec
    IN [d EXCEPT !.cname = cname,
                 !.is_pcm = (cname = "pcm"),
                 !.format = [format EXCEPT !.avg_bytes_per_sec = avg]]

analyze_fmt(d, format) ==
    LET cname == unwrap_or(find_codec_from_wav_twocc(format.format_tag),
                           "unknown")
        is_pcm == (cname = "pcm")
        avg == IF is_pcm /\ format.avg_bytes_per_sec = 0
               THEN u32_value(u32_mul(format.block_align,
                                      format.samples_per_sec))
               ELSE format.avg_bytes_per_sec
    IN [d EXCEPT !.cname = cname,
                 !.is_pcm = is_pcm,
                 !.format = [format EXCEPT !.avg_bytes_per_sec = avg]]

(* Whether the multiplication in analyze_fmt is evaluated and overflows.    *)
backfill_overflows(format) ==
    /\ unwrap_or(find_codec_from_wav_twocc(format.format_tag), "unknown")
          = "pcm"
    /\ format.avg_bytes_per_sec = 0
    /\ u32_mul(format.block_align, format.samples_per_sec).overflow

Panic(i, kind) ==
    [ok |-> FALSE, i |-> i, v |-> 0, variant |-> "Panic", kind |-> kind]

(* The "data" arm of the chunk scan: records the payload bounds and turns   *)
(* the recorded duration into milliseconds.  A zero sample rate with a      *)
(* nonzero recorded duration divides by zero, which aborts the process.     *)
data_arm(d, inp, csize) ==
    LET pos == inp
        dend == inp + csize
    IN IF d.duration # 0 /\ d.format.samples_per_sec = 0
       THEN [res |-> Panic(inp, "DivideByZero"),
             d |-> [d EXCEPT !.data_pos = pos, !.data_end = dend]]
       ELSE [res |-> POk(inp, << >>),
             d |-> [d EXCEPT
                      !.data_pos = pos,
                      !.data_end = dend,
                      !.duration =
                         IF d.duration # 0
                         THEN (d.duration * 1000) \div d.format.samples_per_sec
                         ELSE IF d.format.avg_bytes_per_sec > 0
                         THEN ((dend - pos) * 1000)
                                 \div d.format.avg_bytes_per_sec
                         ELSE 0]]

(* The chunk scan with a fact chunk of any size but 4 stepped over like an  *)
(* unknown chunk.                                                           *)
RECURSIVE scan_chunks_fact_skipped(_, _, _)
scan_chunks_fact_skipped(d, input, i) ==
    LET c == read_chunks_type(input, i) IN
    IF ~c.ok THEN [res |-> POk(i, << >>), d |-> d] ELSE
    IF c.v.ctype = TagFact /\ c.v.csize = 4
    THEN LET r == read_duration(input, c.i) IN
         IF ~r.ok THEN [res |-> r, d |-> d]
         ELSE scan_chunks_fact_skipped([d EXCEPT !.duration = r.v],
                                       input, r.i)
    ELSE IF c.v.ctype = TagData
    THEN data_arm(d, c.i, c.v.csize)
    ELSE LET s == skip_chunk(input, c.i, c.v.csize) IN
         IF ~s.ok THEN [res |-> s, d |-> d]
         ELSE scan_chunks_fact_skipped(d, input, s.i)

(* The while-let loop of parse_headers, from offset i of the window.        *)
RECURSIVE scan_chunks(_, _, _)
scan_chunks(d, input, i) ==
    LET c == read_chunks_type(input, i) IN
    IF ~c.ok THEN [res |-> POk(i, << >>), d |-> d] ELSE
    IF c.v.ctype = TagFact
    THEN IF c.v.csize # 4
         THEN [res |-> PErr(i, "Custom1"), d |-> d]
         ELSE LET r == read_duration(input, c.i) IN
              IF ~r.ok THEN [res |-> r, d |-> d]
              ELSE scan_chunks([d EXCEPT !.duration = r.v], input, r.i)
    ELSE IF c.v.ctype = TagData
    THEN data_arm(d, c.i, c.v.csize)
    ELSE LET s == skip_chunk(input, c.i, c.v.csize) IN
         IF ~s.ok THEN [res |-> s, d |-> d]
         ELSE scan_chunks(d, input, s.i)

(* parse_headers once parse_header_fmt has returned f: the `?` returns its  *)
(* error, otherwise the format is analysed and the chunks are scanned.      *)
after_header_fmt(d, input, f) ==
    IF ~f.ok THEN [res |-> f, d |-> d]
    ELSE IF overflow_checks /\ backfill_overflows(f.v)
    THEN [res |-> Panic(f.i, "MulOverflow"),
          d |-> [d EXCEPT !.cname = analyze_fmt(d, f.v).cname,
                          !.is_pcm = TRUE,
                          !.format = f.v]]
    ELSE scan_chunks(analyze_fmt(d, f.v), input, f.i)

parse_headers(d, input) ==
    after_header_fmt(d, input, parse_header_fmt(input, 0))

(* Soniton::new(bits, be, packed, planar, float, signed)                    *)
Soniton(bits, be, packed, planar, float, signed) ==
    [bits |-> bits, be |-> be, packed |-> packed, planar |-> planar,
     float |-> float, signed |-> signed]

soniton_of(d) ==
    LET bits == d.format.bits_per_sample % 256 IN
    IF d.cname = "pcm"
    THEN IF d.format.format_tag # PCM_FLOAT_FORMAT_ID
         THEN IF d.format.bits_per_sample = 8
              THEN Soniton(8, FALSE, FALSE, FALSE, FALSE, FALSE)
              ELSE Soniton(bits, FALSE, FALSE, FALSE, FALSE, TRUE)
         ELSE Soniton(bits, FALSE, FALSE, FALSE, TRUE, FALSE)
    ELSE Soniton(bits, FALSE, FALSE, FALSE, FALSE, TRUE)

stream_of(d) ==
    [id |-> 0, index |-> 0,
     duration |-> d.duration,
     timebase |-> << 1, d.format.samples_per_sec >>,
     extradata |-> d.format.edata,
     codec_id |-> d.cname,
     rate |-> d.format.samples_per_sec,
     channels |-> d.format.channels,
     format |-> soniton_of(d)]

EmptyInfo == [duration |-> [some |-> FALSE, v |-> 0], streams |-> << >>]

(* The match of read_headers on p, the outcome of parse_headers.  The Ok    *)
(* arm builds the stream's timebase with Rational64::new(1, rate), which    *)
(* panics on a zero denominator.                                            *)
headers_outcome(p, info) ==
    IF p.res.ok /\ p.d.format.samples_per_sec = 0
    THEN [result |-> "Panic", seek |-> 0, d |-> p.d, info |-> info]
    ELSE IF p.res.ok
    THEN [result |-> "Ok", seek |-> p.res.i, d |-> p.d,
          info |-> [duration |-> [some |-> TRUE, v |-> p.d.duration],
                    streams |-> Append(info.streams, stream_of(p.d))]]
    ELSE IF p.res.variant = "Incomplete"
    THEN [result |-> "MoreDataNeeded", seek |-> 0, d |-> p.d, info |-> info]
    ELSE IF p.res.variant = "Panic"
    THEN [result |-> "Panic", seek |-> 0, d |-> p.d, info |-> info]
    ELSE [result |-> "InvalidData", seek |-> 0, d |-> p.d, info |-> info]

(* Demuxer::read_headers on the window buf.data().                          *)
read_headers(d, info, window) ==
    headers_outcome(parse_headers(d, window), info)

(* u16::leading_zeros                                                       *)
RECURSIVE bit_length(_)
bit_length(x) == IF x = 0 THEN 0 ELSE 1 + bit_length(x \div 2)

leading_zeros(x) == 16 - bit_length(x)

saturating_sub(a, b) == IF a >= b THEN a - b ELSE 0

block_size(d) ==
    IF d.is_pcm
    THEN (d.format.block_align
            * 2 ^ saturating_sub(leading_zeros(d.format.block_align), 8))
         % 65536
    ELSE d.format.block_align

NoPts == [some |-> FALSE, v |-> 0]

pts_of(d) ==
    IF d.format.avg_bytes_per_sec # 0
    THEN [some |-> TRUE,
          v |-> (d.data_pos * d.format.samples_per_sec)
                   \div d.format.avg_bytes_per_sec]
    ELSE NoPts

NoPacket == [data |-> << >>, pts |-> NoPts, stream_index |-> 0]

(* The match of read_event on g, the outcome of get_data.                   *)
event_outcome(d, g) ==
    IF g.ok
    THEN [result |-> "Ok", seek |-> g.i, event |-> "NewPacket",
          packet |-> [data |-> g.v, pts |-> pts_of(d), stream_index |-> 0],
          d |-> [d EXCEPT !.data_pos = g.i]]
    ELSE IF g.variant = "Error" /\ g.kind = "Eof"
    THEN [result |-> "Ok", seek |-> 0, event |-> "Eof",
          packet |-> NoPacket, d |-> d]
    ELSE [result |-> "InvalidData", seek |-> 0, event |-> "None",
          packet |-> NoPacket, d |-> d]

(* Demuxer::read_event on the window buf.data().                            *)
read_event(d, window) ==
    event_outcome(d, get_data(window, 0, block_size(d)))

-----------------------------------------------------------------------------
(* muxer.rs                                                                 *)

(* The Writer the muxer is handed: a byte vector and a cursor.              *)
WriterNew == [buf |-> << >>, pos |-> 0]

(* Write::write_all at the cursor: overwrites, and extends at the end.      *)
write_all(w, bytes) ==
    LET n == IF w.pos + Len(bytes) > Len(w.buf)
             THEN w.pos + Len(bytes) ELSE Len(w.buf)
    IN [buf |-> [k \in 1..n |->
                    IF k > w.pos /\ k <= w.pos + Len(bytes)
                    THEN bytes[k - w.pos] ELSE w.buf[k]],
        pos |-> w.pos + Len(bytes)]

seek_current(w, delta) == [w EXCEPT !.pos = w.pos + delta]

seek_end(w, delta) == [w EXCEPT !.pos = Len(w.buf) + delta]

WavMuxerNew(format) == [format |-> format, data_pos |-> 0]

(* patch_size without the final seek to the end of the stream.             *)
patch_size_no_seek_end(bw, pos) ==
    LET size == bw.pos - pos IN
    write_all(seek_current(bw, -(size + 4)), U32LE(size))

patch_size(bw, pos) ==
    LET size == bw.pos - pos IN
    seek_end(write_all(seek_current(bw, -(size + 4)), U32LE(size)), 0)

edata_len_of(format) == IF format.edata.some THEN Len(format.edata.v) ELSE 0

twocc_of(format) ==
    LET codec_name ==
            unwrap_or(find_codec_from_wav_twocc(format.format_tag), "unknown")
    IN IF codec_name = "pcm"
       THEN IF format.format_tag # PCM_FLOAT_FORMAT_ID
            THEN 1 ELSE PCM_FLOAT_FORMAT_ID
       ELSE format.format_tag

mux_avg_bytes_per_sec(format) ==
    LET codec_name ==
            unwrap_or(find_codec_from_wav_twocc(format.format_tag), "unknown")
    IN IF codec_name = "pcm"
       THEN (format.channels * format.samples_per_sec * format.bits_per_sample)
               \div 8
       ELSE 0

(* The bytes write_header assembles in buf before handing them to out.      *)
header_bytes(format) ==
    LET edata_len == edata_len_of(format) IN
    TagRIFF \o << 0, 0, 0, 0 >> \o TagWAVE \o TagFmt
    \o U32LE(IF edata_len = 0 THEN 16 ELSE 18 + edata_len)
    \o U16LE(twocc_of(format))
    \o U16LE(format.channels)
    \o U32LE(format.samples_per_sec)
    \o U32LE(mux_avg_bytes_per_sec(format))
    \o U16LE(format.block_align)
    \o U16LE(format.bits_per_sample)
    \o (IF format.edata.some
        THEN U16LE(edata_len) \o format.edata.v ELSE << >>)
    \o TagData \o << 0, 0, 0, 0 >>

(* write_header refusing only extradata longer than 65536 bytes.            *)
write_header_off_by_one(m, w) ==
    IF edata_len_of(m.format) > 65536
    THEN [result |-> "InvalidData", m |-> m, w |-> w]
    ELSE LET w2 == write_all(w, header_bytes(m.format)) IN
         [result |-> "Ok", m |-> [m EXCEPT !.data_pos = w2.pos], w |-> w2]

write_header(m, w) ==
    IF edata_len_of(m.format) >= 65536
    THEN [result |-> "InvalidData", m |-> m, w |-> w]
    ELSE LET w2 == write_all(w, header_bytes(m.format)) IN
         [result |-> "Ok", m |-> [m EXCEPT !.data_pos = w2.pos], w |-> w2]

write_packet(m, w, pkt) == [result |-> "Ok", m |-> m, w |-> write_all(w, pkt.data)]

write_trailer(m, w) ==
    [result |-> "Ok", m |-> m,
     w |-> patch_size(patch_size(w, m.data_pos), 8)]

-----------------------------------------------------------------------------
(* The input streams: RIFF/WAVE files laid out as the parser reads them.    *)

MaxPkts == 5
MaxHdrWin == 62
MaxEvWin == 2

Tags == {1, PCM_FLOAT_FORMAT_ID, 39321}
FmtSizes == {14, 15, 16, 17, 18, 20}
ChannelCounts == {1, 2}
BitDepths == {8, 16}
SampleRates == {8000}
ByteRates == {0, 8000}
BlockAligns == {0, 1, 2}
MidChunks ==
    {"none", "fact", "fact0", "list", "list3", "list_list", "list_fact",
     "fact6", "fact0sz", "fact6_list", "list_fact3"}
(* the layouts holding a fact chunk whose declared size is not 4            *)
BadFactMids == {"fact6", "fact0sz", "fact6_list", "list_fact3"}
(* declared data size and the number of bytes that follow the data header   *)
DataShapes == { <<4, 4>>, <<4000, 260>>, <<2, 6>> }

(* Header variety: every fmt layout and every chunk between fmt and data.    *)
HeaderGens ==
    [format_tag : Tags, fmt_size : FmtSizes, channels : {1}, bits : {8},
     rate : SampleRates, avg : ByteRates, block_align : {1},
     mid : MidChunks, data : { <<4, 4>> }, riff_off : {0}]

(* Stream variety: every sample format, block size and payload shape.       *)
StreamGens ==
    [format_tag : Tags, fmt_size : {17, 18, 20}, channels : ChannelCounts,
     bits : BitDepths, rate : SampleRates, avg : ByteRates,
     block_align : BlockAligns, mid : {"none"}, data : DataShapes,
     riff_off : {0}]

(* The end-to-end scenario: canonical 8-bit mono PCM, four payload bytes,   *)
(* a RIFF size field of 36 (four less than the bytes that follow it).       *)
EndToEndGen ==
    [format_tag |-> 1, fmt_size |-> 16, channels |-> 1, bits |-> 8,
     rate |-> 8000, avg |-> 8000, block_align |-> 1, mid |-> "none",
     data |-> <<4, 4>>, riff_off |-> -4]

(* Arithmetic edge cases: a zero sample rate, and a block_align and rate    *)
(* whose product does not fit in 32 bits.                                   *)
ArithGens ==
    [format_tag : {1, 39321}, fmt_size : {18}, channels : {1}, bits : {8},
     rate : {0, 65538}, avg : ByteRates, block_align : {1, 65535},
     mid : {"none", "fact", "fact6"}, data : { <<4, 4>> }, riff_off : {0}]

Gens == HeaderGens \cup StreamGens \cup ArithGens \cup {EndToEndGen}

Pad(n) == IF n % 2 = 1 THEN << 0 >> ELSE << >>

EdataBytes(n) == [k \in 1..n |-> (160 + k) % 256]

FmtChunk(g) ==
    TagFmt \o U32LE(g.fmt_size)
    \o U16LE(g.format_tag) \o U16LE(g.channels)
    \o U32LE(g.rate) \o U32LE(g.avg) \o U16LE(g.block_align)
    \o (IF g.fmt_size >= 16 THEN U16LE(g.bits) ELSE << >>)
    \o (IF g.fmt_size = 15 \/ g.fmt_size = 17 THEN << 0 >> ELSE << >>)
    \o (IF g.fmt_size >= 18
        THEN U16LE(g.fmt_size - 18) \o EdataBytes(g.fmt_size - 18)
        ELSE << >>)
    \o Pad(g.fmt_size)

FactChunk(size, body) == TagFact \o U32LE(size) \o body

ListChunk(size) == TagLIST \o U32LE(size) \o [k \in 1..size |-> 7]

(* The chunks between fmt and data.  Chunks follow one another directly,    *)
(* as skip_chunk steps over them: no pad byte after an odd size.            *)
MidChunk(g) ==
    CASE g.mid = "none"  -> << >>
      [] g.mid = "fact"  -> FactChunk(4, U32LE(4000))
      [] g.mid = "fact0" -> FactChunk(4, U32LE(0))
      [] g.mid = "list"  -> ListChunk(2)
      [] g.mid = "list3" -> ListChunk(3)
      [] g.mid = "list_list" -> ListChunk(2) \o ListChunk(5)
      [] g.mid = "list_fact" -> ListChunk(2) \o FactChunk(4, U32LE(4000))
      [] g.mid = "fact6" -> FactChunk(6, U32LE(4000) \o << 0, 0 >>)
      [] g.mid = "fact0sz" -> FactChunk(0, << >>)
      [] g.mid = "fact6_list" ->
            FactChunk(6, U32LE(4000) \o << 0, 0 >>) \o ListChunk(2)
      [] g.mid = "list_fact3" -> ListChunk(2) \o FactChunk(3, << 1, 2, 3 >>)

(* The formats a muxer is built from directly, without a demuxer:           *)
(* extradata absent, empty, short, and of 65535 and 65536 bytes.            *)
MuxEdata ==
    {NoEdata, SomeEdata(<< >>), SomeEdata(EdataBytes(2)),
     SomeEdata(EdataBytes(65535)), SomeEdata(EdataBytes(65536))}

MuxFormats ==
    {[format_tag |-> 1, channels |-> 1, samples_per_sec |-> 8000,
      avg_bytes_per_sec |-> 8000, block_align |-> 1, bits_per_sample |-> 8,
      edata |-> e] : e \in MuxEdata}

Payload(n) == [k \in 1..n |-> k % 256]

Body(g) ==
    TagWAVE \o FmtChunk(g) \o MidChunk(g)
    \o TagData \o U32LE(g.data[1]) \o Payload(g.data[2])

(* The RIFF size field is informational: header() reads and drops it.       *)
BuildWav(g) == TagRIFF \o U32LE(Len(Body(g)) + g.riff_off) \o Body(g)

(* Offset of the first payload byte of BuildWav(g).                         *)
PayloadStart(g) == Len(BuildWav(g)) - g.data[2]

-----------------------------------------------------------------------------
(* The session: one demuxer fed from a transport over input, and one muxer  *)
(* writing to out, driven as tests::demux_mux drives them: the muxer is     *)
(* built from the demuxed format once read_headers has succeeded on the     *)
(* whole input, each packet read is written, and Eof writes the trailer.    *)

VARIABLES gen, input, pc, demuxer, info, hres, hwin, rpos, rwin, ev, pkts,
          muxer, out

vars == << overflow_checks, gen, input, pc, demuxer, info, hres, hwin, rpos,
           rwin, ev, pkts, muxer, out >>

Init ==
    /\ overflow_checks \in BOOLEAN
    /\ gen \in Gens
    /\ input = BuildWav(gen)
    /\ pc = "init"
    /\ demuxer = WavDemuxerNew
    /\ info = EmptyInfo
    /\ hres = "None"
    /\ hwin = 0
    /\ rpos = 0
    /\ rwin = 0
    /\ ev = "None"
    /\ pkts = << >>
    /\ muxer = WavMuxerNew(DefaultFormat)
    /\ out = WriterNew

(* The windows the transport may hold when read_headers is called.          *)
HdrWindows ==
    {w \in 0..Len(input) : w = Len(input) \/ w <= MaxHdrWin}

(* The bytes of the stream from the current transport position on.          *)
Window == SubSeq(input, rpos + 1, Len(input))

(* The lengths of buf.data() when read_event is called: the transport holds *)
(* everything that is left, or only the first few bytes of it.              *)
EventWindows == {w \in 0..Len(Window) : w = Len(Window) \/ w <= MaxEvWin}

(* The context after read_headers returned r: on Ok the transport seeks.    *)
HeadersReturn(r) ==
    /\ hres' = r.result
    /\ demuxer' = r.d
    /\ info' = r.info
    /\ rpos' = rpos + r.seek
    /\ pc' = CASE r.result = "Ok" -> "headers"
              [] r.result = "MoreDataNeeded" -> "init"
              [] r.result = "Panic" -> "aborted"
              [] OTHER -> "failed"

ReadHeaders ==
    /\ pc = "init"
    /\ ev = "None"
    /\ \E w \in HdrWindows :
          /\ hwin' = w
          /\ HeadersReturn(read_headers(demuxer, info, SubSeq(input, 1, w)))
    /\ UNCHANGED << overflow_checks, gen, input, rwin, ev, pkts, muxer, out >>

NewMuxer ==
    /\ pc = "headers"
    /\ hwin = Len(input)
    /\ muxer' = WavMuxerNew(demuxer.format)
    /\ out' = WriterNew
    /\ pc' = "configured"
    /\ UNCHANGED << overflow_checks, gen, input, demuxer, info, hres, hwin,
                    rpos, rwin, ev, pkts >>

(* A muxer built from a hand-made format, with no demuxer behind it; only   *)
(* its header is written.  The muxer does not look at the input, so this is *)
(* explored from one input.                                                 *)
NewMuxerFromFormat ==
    /\ pc = "init"
    /\ gen = EndToEndGen
    /\ ev = "None"
    /\ \E f \in MuxFormats : muxer' = WavMuxerNew(f)
    /\ out' = WriterNew
    /\ pc' = "configured"
    /\ UNCHANGED << overflow_checks, gen, input, demuxer, info, hres, hwin,
                    rpos, rwin, ev, pkts >>

(* The context after a muxer call returned r.                               *)
MuxReturn(r, next) ==
    /\ muxer' = r.m
    /\ out' = r.w
    /\ pc' = IF r.result = "Ok" THEN next ELSE "mux_failed"

WriteHeader ==
    /\ pc = "configured"
    /\ MuxReturn(write_header(muxer, out),
                 IF hres = "Ok" THEN "streaming" ELSE "header_only")
    /\ UNCHANGED << overflow_checks, gen, input, demuxer, info, hres, hwin,
                    rpos, rwin, ev, pkts >>

(* The context after read_event returned r: the transport seeks, a packet   *)
(* is handed to the muxer, Eof ends the loop.                               *)
EventReturn(r) ==
    /\ demuxer' = r.d
    /\ rpos' = rpos + r.seek
    /\ ev' = r.event
    /\ pkts' = IF r.event = "NewPacket" THEN Append(pkts, r.packet) ELSE pkts
    /\ pc' = CASE r.event = "NewPacket" -> "packet"
              [] r.event = "Eof" -> "eof"
              [] OTHER -> "failed"

ReadEvent ==
    /\ pc = "streaming"
    /\ Len(pkts) < MaxPkts
    /\ \E w \in EventWindows :
          /\ rwin' = w
          /\ EventReturn(read_event(demuxer, SubSeq(Window, 1, w)))
    /\ UNCHANGED << overflow_checks, gen, input, info, hres, hwin, muxer,
                    out >>

(* read_event called on a session that is not streaming: before any         *)
(* read_headers, or after read_headers failed on the whole input.  The code *)
(* has no guard, so the call runs as usual; the caller has no muxer to hand *)
(* the packet to, and does not go on to read the headers.                   *)
EarlyEventReturn(r) ==
    /\ demuxer' = r.d
    /\ rpos' = rpos + r.seek
    /\ ev' = r.event

ReadEventEarly ==
    /\ pc = "init" \/ (pc = "failed" /\ hwin = Len(input))
    /\ \E w \in EventWindows :
          /\ rwin' = w
          /\ EarlyEventReturn(read_event(demuxer, SubSeq(Window, 1, w)))
    /\ UNCHANGED << overflow_checks, gen, input, pc, info, hres, hwin, pkts,
                    muxer, out >>

WritePacket ==
    /\ pc = "packet"
    /\ MuxReturn(write_packet(muxer, out, pkts[Len(pkts)]), "streaming")
    /\ UNCHANGED << overflow_checks, gen, input, demuxer, info, hres, hwin,
                    rpos, rwin, ev, pkts >>

WriteTrailer ==
    /\ pc = "eof"
    /\ MuxReturn(write_trailer(muxer, out), "done")
    /\ UNCHANGED << overflow_checks, gen, input, demuxer, info, hres, hwin,
                    rpos, rwin, ev, pkts >>

Next ==
    \/ ReadHeaders
    \/ NewMuxer
    \/ NewMuxerFromFormat
    \/ WriteHeader
    \/ ReadEvent
    \/ ReadEventEarly
    \/ WritePacket
    \/ WriteTrailer

Spec == Init /\ [][Next]_vars

-----------------------------------------------------------------------------
(* Whole-stream functions used to state the round-trip properties.          *)

RECURSIVE PayloadBytes(_)
PayloadBytes(ps) ==
    IF ps = << >> THEN 0 ELSE Len(Head(ps).data) + PayloadBytes(Tail(ps))

PacketData(ps) == [k \in 1..Len(ps) |-> ps[k].data]

(* The read_event loop of tests::demux_mux from transport position pos:     *)
(* the packets returned before Eof.  fuel bounds the number of packets.     *)
RECURSIVE read_all(_, _, _, _)
read_all_step(r, data, pos, fuel) ==
    IF r.event = "NewPacket" /\ fuel > 0
    THEN LET rest == read_all(r.d, data, pos + r.seek, fuel - 1) IN
         [eof |-> rest.eof, pkts |-> << r.packet >> \o rest.pkts]
    ELSE [eof |-> (r.event = "Eof"), pkts |-> << >>]

read_all(d, data, pos, fuel) ==
    read_all_step(read_event(d, SubSeq(data, pos + 1, Len(data))),
                  data, pos, fuel)

RECURSIVE write_packets(_, _, _)
write_packets(m, w, ps) ==
    IF ps = << >> THEN w
    ELSE write_packets(m, write_packet(m, w, Head(ps)).w, Tail(ps))

(* tests::demux_mux on data, given h, the outcome of read_headers on it.    *)
demux_mux_after(h, data) ==
    IF h.result # "Ok" THEN [ok |-> FALSE, bytes |-> << >>, pkts |-> << >>]
    ELSE LET mh == write_header(WavMuxerNew(h.d.format), WriterNew)
             ps == read_all(h.d, data, h.seek, MaxPkts)
         IN IF mh.result # "Ok" \/ ~ps.eof
            THEN [ok |-> FALSE, bytes |-> << >>, pkts |-> ps.pkts]
            ELSE [ok |-> TRUE,
                  bytes |-> write_trailer(
                               mh.m, write_packets(mh.m, mh.w, ps.pkts)).w.buf,
                  pkts |-> ps.pkts]

demux_mux(data) ==
    demux_mux_after(read_headers(WavDemuxerNew, EmptyInfo, data), data)

-----------------------------------------------------------------------------
(* Properties                                                               *)

Streaming == pc \in {"streaming", "packet", "eof", "done"}

Descriptor(st) ==
    [codec_id |-> st.codec_id, rate |-> st.rate, channels |-> st.channels,
     format |-> st.format, extradata |-> st.extradata,
     duration |-> st.duration]

SamePackets(ps) == ps.eof /\ PacketData(ps.pkts) = PacketData(pkts)

RoundTripHolds(h2) ==
    /\ h2.result = "Ok"
    /\ Descriptor(h2.info.streams[1]) = Descriptor(info.streams[1])
    /\ SamePackets(read_all(h2.d, out.buf, h2.seek, MaxPkts))

(* C1: once the demuxed format and every packet up to Eof have been muxed   *)
(* and the trailer written, a fresh session accepts the output and yields   *)
(* the same stream descriptor and the same packet payloads in order.        *)
C1_RoundTrip ==
    pc = "done" => RoundTripHolds(read_headers(WavDemuxerNew, EmptyInfo, out.buf))

(* C2: write_trailer leaves the payload byte count in the four bytes before *)
(* the payload start and the output length minus 8 at offset 4, and changes *)
(* no other byte; "RIFF" stays at offset 0.                                 *)
C2_TrailerPatchesSizes ==
    [][(pc = "eof" /\ pc' = "done") =>
          LET before == out.buf
              after == out'.buf
              start == Len(before) - PayloadBytes(pkts)
          IN /\ Len(after) = Len(before)
             /\ le_u32(after, start - 4).v = PayloadBytes(pkts)
             /\ le_u32(after, 4).v = Len(after) - 8
             /\ SubSeq(after, 1, 4) = TagRIFF
             /\ \A k \in 1..Len(after) :
                   (k \notin 5..8 /\ k \notin (start - 3)..start)
                      => after[k] = before[k]]_vars

(* C2 witness: a trailer written after two or more packets.                 *)
C2_Witness ==
    /\ pc = "done"
    /\ Len(pkts) >= 2
    /\ le_u32(out.buf, 4).v = Len(out.buf) - 8
    /\ le_u32(out.buf, muxer.data_pos - 4).v = PayloadBytes(pkts)

IdempotentHolds(r) == r.ok /\ r.bytes = out.buf

(* C3: the remuxed output is accepted by read_headers and remuxing it again *)
(* gives the same bytes.                                                    *)
C3_RemuxIdempotent == pc = "done" => IdempotentHolds(demux_mux(out.buf))

C4Input ==
    TagRIFF \o U32LE(36) \o TagWAVE \o TagFmt \o U32LE(16)
    \o U16LE(1) \o U16LE(1) \o U32LE(8000) \o U32LE(8000)
    \o U16LE(1) \o U16LE(8) \o TagData \o U32LE(4) \o << 1, 2, 3, 4 >>

(* C4: on the 48-byte end-to-end input read_headers succeeds with one PCM,  *)
(* mono, 8000 Hz, 8-bit unsigned stream, and the packets read before Eof    *)
(* are exactly the four one-byte packets 1, 2, 3, 4.                        *)
C4_EndToEnd ==
    (input = C4Input /\ hwin = Len(C4Input) /\ hres # "None") =>
        /\ hres = "Ok"
        /\ Len(info.streams) = 1
        /\ info.streams[1].codec_id = "pcm"
        /\ info.streams[1].channels = 1
        /\ info.streams[1].rate = 8000
        /\ info.streams[1].format
              = Soniton(8, FALSE, FALSE, FALSE, FALSE, FALSE)
        /\ pc \in {"eof", "done"} =>
              PacketData(pkts) = << <<1>>, <<2>>, <<3>>, <<4>> >>

FmtLayoutHolds(r) ==
    /\ gen.fmt_size \in {14, 15, 16, 18, 20} => r.ok
    /\ gen.fmt_size = 16 =>
          r.ok /\ r.v.bits_per_sample = gen.bits /\ ~r.v.edata.some
    /\ gen.fmt_size < 16 => r.ok /\ r.v.bits_per_sample = 8
    /\ gen.fmt_size > 18 =>
          r.ok /\ r.v.edata = SomeEdata(EdataBytes(gen.fmt_size - 18))

(* C5: a well-formed fmt chunk parses for the declared sizes 14, 15, 16 and *)
(* 18+N; size 16 gives the bits_per_sample read and no extradata, a size    *)
(* below 16 gives bits_per_sample 8, size 18+N gives the N extradata bytes. *)
C5_FmtLayouts ==
    (hres # "None" /\ hwin = Len(input))
        => FmtLayoutHolds(parse_fmt(input, 12))

(* C6: a window that is a proper prefix of a well-formed header region      *)
(* makes read_headers signal NeedMoreData.                                  *)
C6_NeedMoreData ==
    (/\ hres # "None"
     /\ gen.fmt_size \in {18, 20}
     /\ gen.mid \notin BadFactMids
     /\ gen \notin ArithGens
     /\ hwin < PayloadStart(gen))
        => hres = "MoreDataNeeded"

(* C7: after a successful read_headers, read_packet on a window shorter     *)
(* than block_size returns Eof and no error; on a window of at least        *)
(* block_size bytes it returns a packet holding exactly the first           *)
(* block_size bytes of the window, with stream index 0.                     *)
C7_EofOrPacket ==
    [][(pc = "streaming" /\ hres = "Ok") =>
          IF rwin' < block_size(demuxer)
          THEN ev' = "Eof" /\ pc' = "eof" /\ pkts' = pkts
          ELSE /\ ev' = "NewPacket"
               /\ pc' = "packet"
               /\ Len(pkts') = Len(pkts) + 1
               /\ SubSeq(pkts', 1, Len(pkts)) = pkts
               /\ pkts'[Len(pkts')].data
                     = SubSeq(Window, 1, block_size(demuxer))
               /\ pkts'[Len(pkts')].stream_index = 0]_vars

(* C7 witness: Eof returned on an empty window after packets were read.     *)
C7_Witness ==
    /\ hres = "Ok"
    /\ ev = "Eof"
    /\ Len(pkts) >= 2
    /\ rwin = 0

(* C8: while streaming, data_pos is the absolute offset of the next unread  *)
(* payload byte (payload start plus the bytes of the packets returned), and *)
(* the timestamps of successive packets do not decrease.                    *)
C8_ForwardCursor ==
    Streaming =>
        /\ demuxer.data_pos = PayloadStart(gen) + PayloadBytes(pkts)
        /\ \A k \in 1..(Len(pkts) - 1) :
              (pkts[k].pts.some /\ pkts[k + 1].pts.some)
                 => pkts[k].pts.v <= pkts[k + 1].pts.v

(* C9: when bytes follow the declared data region, the packets returned     *)
(* stay below data_end.                                                     *)
C9_WithinDataEnd ==
    (Streaming /\ Len(input) > demuxer.data_end)
        => PayloadStart(gen) + PayloadBytes(pkts) <= demuxer.data_end

FactSeen ==
    /\ gen.mid \in {"fact", "fact0", "list_fact"}
    /\ hwin >= PayloadStart(gen) - 8

FactSamples == le_u32(input, PayloadStart(gen) - 12).v

DataSeen == hwin >= PayloadStart(gen)

ExpectedDuration ==
    IF FactSeen /\ FactSamples # 0
    THEN (FactSamples * 1000) \div gen.rate
    ELSE IF DataSeen /\ demuxer.format.avg_bytes_per_sec > 0
    THEN (gen.data[1] * 1000) \div demuxer.format.avg_bytes_per_sec
    ELSE 0

(* C10: whenever read_headers succeeds the reported duration is in          *)
(* milliseconds: samples*1000/sample_rate after a nonzero fact count, else  *)
(* data_size*1000/avg_bytes_per_sec when that rate is positive, else 0.     *)
C10_DurationPolicy ==
    hres = "Ok" =>
        /\ info.duration = [some |-> TRUE, v |-> ExpectedDuration]
        /\ info.streams[1].duration = ExpectedDuration

(* Offset just after the fmt chunk of BuildWav(g), where the scan starts.    *)
FmtEnd(g) == 12 + Len(FmtChunk(g))

(* read_headers got as far as analyze_fmt and returned.                     *)
Analysed ==
    /\ pc \in {"headers", "failed"}
    /\ gen.fmt_size >= WAVEFORMATEX - 1
    /\ hwin >= FmtEnd(gen)

ResolvesToPcm(g) == g.format_tag \in {1, PCM_FLOAT_FORMAT_ID}

(* block_align * rate as the u32 field holds it.                            *)
BackfillValue(g) ==
    IF g.rate <= 2147483647 \div (g.block_align + 1)
    THEN g.block_align * g.rate
    ELSE u32_value(u32_mul(g.block_align, g.rate))

ExpectedAvg(g) ==
    IF ResolvesToPcm(g) /\ g.avg = 0 THEN BackfillValue(g) ELSE g.avg

ScanStarted ==
    /\ hres # "None"
    /\ gen.fmt_size >= WAVEFORMATEX - 1
    /\ hwin >= FmtEnd(gen)
    /\ ~(/\ overflow_checks
          /\ ResolvesToPcm(gen) /\ gen.avg = 0
          /\ u32_mul(gen.block_align, gen.rate).overflow)

(* Offset just after the 8-byte header of the ill-sized fact chunk.         *)
BadFactHeaderEnd(g) ==
    FmtEnd(g) + (IF g.mid = "list_fact3" THEN Len(ListChunk(2)) ELSE 0) + 8

(* C12: when the chunk scan meets a fact chunk whose declared size is not   *)
(* 4, read_headers fails with InvalidData, whatever follows the chunk: it   *)
(* neither succeeds nor asks for more data.                                 *)
C12_BadFactRejected ==
    (/\ ScanStarted
     /\ gen.mid \in BadFactMids
     /\ hwin >= BadFactHeaderEnd(gen))
        => hres = "InvalidData" /\ pc = "failed"

(* C12 witness: a 6-byte fact chunk followed by a LIST chunk and the data   *)
(* chunk, all in the window, rejected.                                      *)
C12_Witness ==
    /\ hres = "InvalidData"
    /\ gen.mid = "fact6_list"
    /\ gen.fmt_size = 18
    /\ hwin = Len(input)

(* C13: write_header fails when the extradata is 65536 bytes or longer, and *)
(* then writes nothing and records no payload start; with shorter extradata *)
(* it succeeds, writes the header and records where the payload starts.     *)
C13_MuxRejectsLongExtradata ==
    [][pc = "configured" =>
          IF edata_len_of(muxer.format) >= 65536
          THEN pc' = "mux_failed" /\ out' = out /\ muxer' = muxer
          ELSE /\ pc' \in {"streaming", "header_only"}
               /\ Len(out'.buf) > Len(out.buf)
               /\ muxer'.data_pos = Len(out'.buf)]_vars

(* C13 witness: a format with exactly 65536 extradata bytes was refused and *)
(* the output is still empty.                                               *)
C13_Witness ==
    /\ pc = "mux_failed"
    /\ edata_len_of(muxer.format) = 65536
    /\ out = WriterNew
    /\ muxer.data_pos = 0

(* C14: a session that is in the Init state, or whose read_headers failed,  *)
(* has not been handed a packet by read_packet.                             *)
C14_PacketsOnlyWhenStreaming ==
    pc \in {"init", "failed"} => ev # "NewPacket"

(* read_headers called again on the session, with the window of the failed  *)
(* call, against the same call on a fresh session.                          *)
RetrySameAsFresh(d, window) ==
    LET again == read_headers(d, EmptyInfo, window)
        fresh == read_headers(WavDemuxerNew, EmptyInfo, window)
    IN again.result = fresh.result /\ again.d = fresh.d

(* C15: a read_headers call that fails leaves the session's format, codec   *)
(* name, is_pcm, data_pos, data_end and duration as they were, so that a    *)
(* later read_headers behaves as on a fresh session.                        *)
C15_NoPartialCommit ==
    [][(pc = "init" /\ pc' = "failed") =>
          /\ demuxer' = demuxer
          /\ RetrySameAsFresh(demuxer', SubSeq(input, 1, hwin'))]_vars

(* The layouts whose chunks between fmt and data are neither fact nor data, *)
(* and the declared sizes of those chunks.                                  *)
NonFactMids == {"none", "list", "list3", "list_list"}

MidSizes(g) ==
    CASE g.mid = "list" -> << 2 >>
      [] g.mid = "list3" -> << 3 >>
      [] g.mid = "list_list" -> << 2, 5 >>
      [] OTHER -> << >>

RECURSIVE SumChunks(_)
SumChunks(sizes) ==
    IF sizes = << >> THEN 0 ELSE 8 + Head(sizes) + SumChunks(Tail(sizes))

ExpectedDataPos(g) == FmtEnd(g) + SumChunks(MidSizes(g)) + 8

(* A fmt chunk of one of the four layouts, with a positive sample rate and  *)
(* a byte rate that fits the field.                                         *)
ValidFmt(g) ==
    /\ g.fmt_size \in {14, 15, 16, 18, 20}
    /\ g.rate > 0
    /\ ~u32_mul(g.block_align, g.rate).overflow

SameHeaders(r) == r.result = "Ok" /\ r.d = demuxer /\ r.info = info

(* C16: on a window holding the prologue, a valid fmt chunk, unknown chunks *)
(* of sizes s_1..s_k and the header of a data chunk of declared size d,     *)
(* read_headers succeeds with data_pos = fmt end + sum(8 + s_i) + 8 and     *)
(* data_end = data_pos + d, seeks the transport to data_pos, and gives the  *)
(* same result on the window cut at data_pos.                               *)
C16_ChunkScan ==
    (/\ pc \in {"headers", "failed", "aborted"}
     /\ ValidFmt(gen)
     /\ gen.mid \in NonFactMids
     /\ hwin >= ExpectedDataPos(gen))
        => /\ pc = "headers"
           /\ demuxer.data_pos = ExpectedDataPos(gen)
           /\ demuxer.data_end = ExpectedDataPos(gen) + gen.data[1]
           /\ rpos = ExpectedDataPos(gen)
           /\ SameHeaders(read_headers(WavDemuxerNew, EmptyInfo,
                               SubSeq(input, 1, ExpectedDataPos(gen))))

(* The fmt chunk-size field of a written header, and the number of bytes    *)
(* between that field and the "data" tag that ends the header.              *)
DeclaredFmtSize(w) == le_u32(w.buf, 16).v

WrittenFmtSize(w, data_pos) == (data_pos - 8) - 20

(* C17: a header written by write_header declares as fmt chunk size the     *)
(* number of bytes that follow the size field up to the "data" tag: 16 when *)
(* no extension length field is written, 18+N when the u16 length and N     *)
(* extradata bytes are written (N = 0 included).                            *)
C17_FmtSizeConsistent ==
    [][(pc = "configured" /\ pc' \in {"streaming", "header_only"}) =>
          /\ SubSeq(out'.buf, muxer'.data_pos - 7, muxer'.data_pos - 4)
                = TagData
          /\ DeclaredFmtSize(out') = WrittenFmtSize(out', muxer'.data_pos)
          /\ DeclaredFmtSize(out') =
                IF muxer.format.edata.some
                THEN 18 + Len(muxer.format.edata.v) ELSE 16]_vars

(* The avg_bytes_per_sec field of a written header.                         *)
EmittedAvg(w) == le_u32(w.buf, 28).v

(* C18: for a PCM format whose declared byte rate 0 was backfilled at demux *)
(* time, the byte rate write_header emits equals the backfilled value; for  *)
(* a codec that is not PCM it emits 0.                                      *)
C18_MuxAvgInvertsBackfill ==
    (Streaming /\ hres = "Ok") =>
        IF ResolvesToPcm(gen)
        THEN gen.avg = 0 =>
                EmittedAvg(out) = demuxer.format.avg_bytes_per_sec
        ELSE EmittedAvg(out) = 0

(* C19: every packet returned while streaming holds at least one byte, so   *)
(* there are never more packets than bytes after the data chunk header.     *)
C19_PacketsConsumeBytes ==
    (Streaming /\ hres = "Ok") =>
        /\ \A k \in 1..Len(pkts) : Len(pkts[k].data) >= 1
        /\ Len(pkts) <= Len(input) - PayloadStart(gen)

(* C20: read_headers returns success, NeedMoreData or InvalidContainer on   *)
(* every window; it never aborts on an arithmetic fault.                    *)
C20_HeadersTotal ==
    /\ hres \in {"None", "Ok", "MoreDataNeeded", "InvalidData"}
    /\ pc # "aborted"

=============================================================================
